---- MODULE Spec2Model ----
(***************************************************************************)
(* networkentropy/network_energy_gradient.py as a state machine.           *)
(*                                                                         *)
(* One caller-owned graph `g` is passed to the module's entry points.  A   *)
(* graph object is a record                                                *)
(*   nodes, edges, directed : the structure (edges as g.edges reports them)*)
(*   node  : node -> attribute dict        (graph.nodes[n])                *)
(*   adj   : edge -> attribute dict        (graph[u][v])                   *)
(*   inst  : instance attributes set with setattr (the two decorator      *)
(*           lists and the bound methods)                                  *)
(* A call works on a heap of graph objects (a sequence; a reference is an  *)
(* index), so that "copy" and "in place" are different things.             *)
(***************************************************************************)
EXTENDS Integers, Sequences, FiniteSets, TLC

VARIABLES g, seed, ret, last, q, gen

vars == <<g, seed, ret, last, q, gen>>

(* ------------------------------ bounds -------------------------------- *)
MaxNode == 2        \* graphs have nodes 1..k, k <= MaxNode
MaxEnergy == 1      \* the stub energies are built from seeds 0..MaxEnergy
MaxRadius == 2      \* radius arguments are 1..MaxRadius
MaxMethods == 2     \* length of a `methods` argument
MaxPath == 2        \* length of a `path` argument

Node == 1..MaxNode
Radii == 1..MaxRadius

(* --------------------------- small helpers ---------------------------- *)
EmptyDict == << >>

Put(d, k, v) == [x \in (DOMAIN d) \cup {k} |-> IF x = k THEN v ELSE d[x]]

Has(d, k) == k \in DOMAIN d

Range(s) == {s[i] : i \in DOMAIN s}

RECURSIVE SumOver(_, _)
SumOver(f, S) ==
  IF S = {} THEN 0
  ELSE LET x == CHOOSE y \in S : TRUE IN f[x] + SumOver(f, S \ {x})

SeqsUpTo(S, n) == UNION {[1..k -> S] : k \in 0..n}

(* ----------------------- module-level constants ----------------------- *)
_EDGES_DECORATORS_ATTR_NAME == "edges_decorators"

_NODES_DECORATORS_ATTR_NAME == "nodes_decorators"

_ENERGY_METHODS == {"randic", "laplacian", "directed_laplacian", "graph"}

ACTIVATION_NAMES == {"relu", "elu"}

\* floor(1000 * log10(k)); weights are kept in thousandths
Log10Milli(k) ==
  CASE k = 1 -> 0 [] k = 2 -> 301 [] k = 3 -> 477 [] k = 4 -> 602
    [] k = 5 -> 698 [] k = 6 -> 778 [] k = 7 -> 845 [] k = 8 -> 903
    [] k = 9 -> 954 [] OTHER -> 1000

Abs(x) == IF x < 0 THEN -x ELSE x

ACTIVATIONS_elu_linear(name, x) ==
  IF name = "relu"
  THEN (IF x > 0 THEN 1000 * x ELSE 0)
  ELSE 1000 * x

\* ACTIVATIONS[name](x), in thousandths
ACTIVATIONS(name, x) ==
  IF name = "relu"
  THEN (IF x > 0 THEN 1000 * x ELSE 0)
  ELSE (IF x >= 0 THEN 1000 * x ELSE Log10Milli(Abs(x) + 1))

(* ------------------------ the graph library --------------------------- *)
NoAttrs(S) == [x \in S |-> EmptyDict]

NewGraph(ns, es, dir) ==
  [nodes |-> ns, edges |-> es, directed |-> dir,
   node |-> NoAttrs(ns), adj |-> NoAttrs(es), inst |-> EmptyDict]

\* graph.copy(): a new object with copies of the attribute dicts; instance
\* attributes set with setattr are not carried over
GraphCopy(graph) == [graph EXCEPT !.inst = EmptyDict]

\* the edge of `graph` that graph[u][v] addresses
EdgeKey(graph, u, v) ==
  IF <<u, v>> \in graph.edges \/ graph.directed THEN <<u, v>> ELSE <<v, u>>

\* graph.to_directed(): a new directed graph, both directions of every
\* undirected edge, each with a copy of the edge's attributes
ToDirected(graph) ==
  LET es == IF graph.directed THEN graph.edges
            ELSE graph.edges \cup {<<e[2], e[1]>> : e \in graph.edges}
  IN  [nodes |-> graph.nodes, edges |-> es, directed |-> TRUE,
       node |-> graph.node,
       adj |-> [e \in es |-> graph.adj[EdgeKey(graph, e[1], e[2])]],
       inst |-> EmptyDict]

Degree(graph, n) == Cardinality({e \in graph.edges : e[1] = n \/ e[2] = n})

(* ------------------- network_energy (stub functions) ------------------ *)
MethodIndex(method) ==
  CASE method = "randic" -> 1 [] method = "laplacian" -> 2
    [] method = "directed_laplacian" -> 3 [] OTHER -> 4

\* _ENERGY_METHODS[method](graph, radius): a pure function of the graph and
\* the radius, one value per node
EnergyFunction(method, graph, radius) ==
  [n \in graph.nodes |-> MethodIndex(method) * seed[n] * radius + Degree(graph, n)]

(* ---------------------------- the registry ---------------------------- *)
_get_energy_method(method) ==
  IF method \notin _ENERGY_METHODS
  THEN [err |-> "ValueError", method |-> method]
  ELSE [err |-> "", method |-> method]

_get_energy_method_name(method) == method \o "_energy"

_get_gradient_method_name(method) == method \o "_gradient"

_get_centrality_name(method) == method \o "_gradient_centrality"

_compute_gradient_swapped(energy1, energy2) == energy1 - energy2

_compute_gradient(energy1, energy2) == energy2 - energy1

(* ------------------------- get_energy_gradients ----------------------- *)
\* for edge in g.edges: result[edge] = _compute_gradient(energies[node1], energies[node2])
GradientsOf(graph, energies) ==
  [edge \in graph.edges |-> _compute_gradient(energies[edge[1]], energies[edge[2]])]

CompleteGraph_ignored(graph, complete) == graph

\* if complete: g = g.to_directed()
CompleteGraph(graph, complete) == IF complete THEN ToDirected(graph) ELSE graph

GradientsOn(graph, method, radius) ==
  [err |-> "", map |-> GradientsOf(graph, EnergyFunction(method, graph, radius)),
   efn |-> <<method>>]

\* [err, map, efn]: the result dict and the energy functions invoked
get_energy_gradients(graph, method, complete, radius) ==
  IF _get_energy_method(method).err # ""
  THEN [err |-> _get_energy_method(method).err, map |-> EmptyDict, efn |-> << >>]
  ELSE GradientsOn(CompleteGraph(graph, complete), method, radius)

(* ------------------------- Augmentation Record ------------------------ *)
GetAttr(graph, attribute_name, default) ==
  IF Has(graph.inst, attribute_name) THEN graph.inst[attribute_name] ELSE default

_is_decorated_helper(graph, attribute_name, decorator_name) ==
  decorator_name \in Range(GetAttr(graph, attribute_name, << >>))

has_nodes_decorated(graph, decorator_name) ==
  _is_decorated_helper(graph, _NODES_DECORATORS_ATTR_NAME, decorator_name)

has_edges_decorated_never(graph, decorator_name) == FALSE

has_edges_decorated(graph, decorator_name) ==
  _is_decorated_helper(graph, _EDGES_DECORATORS_ATTR_NAME, decorator_name)

_add_decorator_helper(graph, attribute_name, decorator_name) ==
  LET storing_attribute == Append(GetAttr(graph, attribute_name, << >>), decorator_name)
  IN  [graph EXCEPT !.inst = Put(@, attribute_name, storing_attribute)]

add_nodes_decorator(graph, decorator_name) ==
  _add_decorator_helper(graph, _NODES_DECORATORS_ATTR_NAME, decorator_name)

add_edges_decorator(graph, decorator_name) ==
  _add_decorator_helper(graph, _EDGES_DECORATORS_ATTR_NAME, decorator_name)

DelAttr(graph, attribute_name) ==
  [graph EXCEPT !.inst = [k \in (DOMAIN @) \ {attribute_name} |-> @[k]]]

clear_all_nodes_attrs_keeps_record(graph) == [graph EXCEPT !.node = NoAttrs(graph.nodes)]

clear_all_nodes_attrs(graph) ==
  DelAttr([graph EXCEPT !.node = NoAttrs(graph.nodes)], _NODES_DECORATORS_ATTR_NAME)

clear_all_edges_attrs_keeps_record(graph) == [graph EXCEPT !.adj = NoAttrs(graph.edges)]

clear_all_edges_attrs(graph) ==
  DelAttr([graph EXCEPT !.adj = NoAttrs(graph.edges)], _EDGES_DECORATORS_ATTR_NAME)

(* --------------------------- one call's state ------------------------- *)
\* heap    : the graph objects alive during the call; heap[1] is the caller's
\* efn     : the energy functions invoked, in order (method names)
\* invoked : the augmentors invoked, in order (<<scope, name>>)
\* empty   : some augmentor returned an empty or null result
\* writes  : the attribute writes made, in order
\* noop    : the augmentors whose result was empty or None, in order
\*           (<<scope, name, graph reference>>)
\* ranked  : the graphs handed to nx.pagerank, in order
StartCall(graph) ==
  [heap |-> <<graph>>, efn |-> << >>, invoked |-> << >>, empty |-> FALSE,
   writes |-> << >>, noop |-> << >>, ranked |-> << >>]

Alloc(st, graph) == [st EXCEPT !.heap = Append(@, graph)]

\* an augmentor (a closure of the source) and what it has captured
Augmentor(kind, method, radius, activation, conv, result) ==
  [kind |-> kind, method |-> method, radius |-> radius,
   activation |-> activation, conv |-> conv, result |-> result]

Dict(map) == [isNone |-> FALSE, map |-> map]

None == [isNone |-> TRUE, map |-> EmptyDict]

\* Python truth value of a result: None and {} are false
Truthy(result) == ~result.isNone /\ DOMAIN result.map # {}

\* networkx.pagerank(graph, weight=...): a score per node, from the in-edge
\* weights (1 where the attribute is missing); {} for the empty graph
Weight(graph, e, weight) == IF Has(graph.adj[e], weight) THEN graph.adj[e][weight] ELSE 1

pagerank(graph, weight) ==
  [n \in graph.nodes |->
     1 + SumOver([e \in graph.edges |-> Weight(graph, e, weight)],
                 {e \in graph.edges : e[2] = n})]

\* for node, value in result.items(): graph.nodes[node][name] = value
WriteNodes(graph, name, map) ==
  [graph EXCEPT !.node =
     [n \in graph.nodes |-> IF n \in DOMAIN map THEN Put(@[n], name, map[n]) ELSE @[n]]]

\* for edge, value in result.items(): graph[edge[0]][edge[1]][name] = value
EdgeKeys(graph, map, e) == {k \in DOMAIN map : EdgeKey(graph, k[1], k[2]) = e}

WriteEdges(graph, name, map) ==
  [graph EXCEPT !.adj =
     [e \in graph.edges |->
        IF EdgeKeys(graph, map, e) # {}
        THEN Put(@[e], name, map[CHOOSE k \in EdgeKeys(graph, map, e) : TRUE])
        ELSE @[e]]]

LogWrite(ref, scope, name, map, k) ==
  [ref |-> ref, scope |-> scope, key |-> k, name |-> name, value |-> map[k]]

RECURSIVE LogWrites(_, _, _, _, _)
LogWrites(ref, scope, name, map, keys) ==
  IF keys = {} THEN << >>
  ELSE <<LogWrite(ref, scope, name, map, CHOOSE x \in keys : TRUE)>>
         \o LogWrites(ref, scope, name, map, keys \ {CHOOSE x \in keys : TRUE})

(* ----------------------------- decorate_graph ------------------------- *)
RECURSIVE decorate_graph(_, _, _, _, _, _, _)
RECURSIVE get_energy_gradient_centrality(_, _, _, _, _, _, _, _)

\* an augmentor's outcome: the call's state afterwards and the result
Outcome(st, efn, result) == [st |-> [st EXCEPT !.efn = @ \o efn], result |-> result]

\* gradient_decorator: {k: activation_function(v) for k, v in ...items()}
Activated(activation, map) == [k \in DOMAIN map |-> ACTIVATIONS(activation, map[k])]

GradientOutcome(st, r) == Outcome(st, r.efn, Dict(r.map))

ActivatedOutcome(st, r, activation) == Outcome(st, r.efn, Dict(Activated(activation, r.map)))

\* function(graph) for an augmentor: [st, result]
Invoke(st, ref, aug) ==
  CASE aug.kind = "stub" ->
         Outcome(st, << >>, aug.result)
    [] aug.kind = "energy" ->
         \* lambda graph, f=get_energy: f(graph, radius=radius)
         Outcome(st, <<aug.method>>,
                 Dict(EnergyFunction(aug.method, st.heap[ref], aug.radius)))
    [] aug.kind = "gradient" ->
         \* lambda graph, m=method: get_energy_gradients(g=graph, method=m, radius=radius)
         GradientOutcome(st, get_energy_gradients(st.heap[ref], aug.method, FALSE,
                                                  aug.radius))
    [] aug.kind = "gradient_decorator" ->
         ActivatedOutcome(st, get_energy_gradients(st.heap[ref], aug.method, FALSE,
                                                   aug.radius), aug.activation)
    [] OTHER ->
         \* lambda graph: get_energy_gradient_centrality(graph, ..., copy=False)
         get_energy_gradient_centrality(st, ref, aug.method, aug.activation,
                                        aug.radius, aug.conv, FALSE, TRUE)

ApplyNodesResult_records_empty(r, ref, name) ==
  IF Truthy(r.result)
  THEN [r.st EXCEPT
          !.invoked = Append(@, <<"node", name>>),
          !.heap[ref] = add_nodes_decorator(WriteNodes(@, name, r.result.map), name),
          !.writes = @ \o LogWrites(ref, "node", name, r.result.map, DOMAIN r.result.map)]
  ELSE [r.st EXCEPT !.invoked = Append(@, <<"node", name>>), !.empty = TRUE,
                     !.heap[ref] = add_nodes_decorator(@, name),
                     !.noop = Append(@, <<"node", name, ref>>)]

\* if result: write the values, add the name to the record
ApplyNodesResult(r, ref, name) ==
  IF Truthy(r.result)
  THEN [r.st EXCEPT
          !.invoked = Append(@, <<"node", name>>),
          !.heap[ref] = add_nodes_decorator(WriteNodes(@, name, r.result.map), name),
          !.writes = @ \o LogWrites(ref, "node", name, r.result.map, DOMAIN r.result.map)]
  ELSE [r.st EXCEPT !.invoked = Append(@, <<"node", name>>), !.empty = TRUE,
                     !.noop = Append(@, <<"node", name, ref>>)]

ApplyEdgesResult(r, ref, name) ==
  IF Truthy(r.result)
  THEN [r.st EXCEPT
          !.invoked = Append(@, <<"edge", name>>),
          !.heap[ref] = add_edges_decorator(WriteEdges(@, name, r.result.map), name),
          !.writes = @ \o LogWrites(ref, "edge", name, r.result.map, DOMAIN r.result.map)]
  ELSE [r.st EXCEPT !.invoked = Append(@, <<"edge", name>>), !.empty = TRUE,
                     !.noop = Append(@, <<"edge", name, ref>>)]

\* for name, function in nodes_decorators.items(): ...
RECURSIVE DecorateNodes(_, _, _)
DecorateNodes(st, ref, decorators) ==
  IF decorators = << >> THEN st
  ELSE IF has_nodes_decorated(st.heap[ref], Head(decorators).name)
  THEN DecorateNodes(st, ref, Tail(decorators))
  ELSE DecorateNodes(
         ApplyNodesResult(Invoke(st, ref, Head(decorators).function), ref,
                          Head(decorators).name),
         ref, Tail(decorators))

\* for name, function in edges_decorators.items(): ...
RECURSIVE DecorateEdges(_, _, _)
DecorateEdges(st, ref, decorators) ==
  IF decorators = << >> THEN st
  ELSE IF has_edges_decorated(st.heap[ref], Head(decorators).name)
  THEN DecorateEdges(st, ref, Tail(decorators))
  ELSE DecorateEdges(
         ApplyEdgesResult(Invoke(st, ref, Head(decorators).function), ref,
                          Head(decorators).name),
         ref, Tail(decorators))

\* for name, method in methods.items(): setattr(graph, name, MethodType(method, graph))
RECURSIVE BindMethods(_, _)
BindMethods(graph, methods) ==
  IF methods = << >> THEN graph
  ELSE BindMethods([graph EXCEPT !.inst = Put(@, Head(methods), "bound method")],
                   Tail(methods))

\* if clear: clear_all_nodes_attrs(graph); clear_all_edges_attrs(graph)
ClearGraph(graph) == clear_all_edges_attrs(clear_all_nodes_attrs(graph))

ClearIf(st, ref, clear) == IF clear THEN [st EXCEPT !.heap[ref] = ClearGraph(@)] ELSE st

Returned(st, ref, methods) ==
  [st |-> [st EXCEPT !.heap[ref] = BindMethods(@, methods)], ref |-> ref]

\* decorate_graph after its copy step, on the graph `ref`
DecorateOn(st, ref, nodes_decorators, edges_decorators, methods, clear) ==
  Returned(DecorateEdges(DecorateNodes(ClearIf(st, ref, clear), ref, nodes_decorators),
                         ref, edges_decorators),
           ref, methods)

CopyRef_alias(st, ref) == ref

\* if copy: graph = graph.copy()  -- the reference the rest of the call uses
CopyRef(st, ref) == Len(st.heap) + 1

\* [st, ref]: the call's state afterwards and the graph returned
decorate_graph(st, ref, nodes_decorators, edges_decorators, methods, copy, clear) ==
  IF copy
  THEN DecorateOn(Alloc(st, GraphCopy(st.heap[ref])), CopyRef(st, ref),
                  nodes_decorators, edges_decorators, methods, clear)
  ELSE DecorateOn(st, ref, nodes_decorators, edges_decorators, methods, clear)

(* -------------------- get_energy_gradient_centrality ------------------ *)
\* try: result = nx.pagerank(g_with_data, weight='gradient', ...)
\* except nx.PowerIterationFailedConvergence: result = None
RankResult_zero_scores(w, conv) ==
  [st |-> [w.st EXCEPT !.ranked = Append(@, w.st.heap[w.ref])],
   result |-> IF conv \/ w.st.heap[w.ref].nodes = {}
              THEN Dict(pagerank(w.st.heap[w.ref], "gradient"))
              ELSE Dict([n \in w.st.heap[w.ref].nodes |-> 0])]

RankResult(w, conv) ==
  [st |-> [w.st EXCEPT !.ranked = Append(@, w.st.heap[w.ref])],
   result |-> IF conv \/ w.st.heap[w.ref].nodes = {}
              THEN Dict(pagerank(w.st.heap[w.ref], "gradient"))
              ELSE None]

CentralityOn(st, ref, method, activation, radius, conv, copy, clear) ==
  RankResult(
    decorate_graph(st, ref, << >>,
                   <<[name |-> "gradient",
                      function |-> Augmentor("gradient_decorator", method, radius,
                                             activation, conv, None)]>>,
                   << >>, copy, clear),
    conv)

\* [st, result]; conv says whether nx.pagerank converges within max_iter
get_energy_gradient_centrality(st, ref, method, activation, radius, conv, copy, clear) ==
  \* if not g.is_directed(): g = g.to_directed()
  IF st.heap[ref].directed
  THEN CentralityOn(st, ref, method, activation, radius, conv, copy, clear)
  ELSE CentralityOn(Alloc(st, ToDirected(st.heap[ref])), Len(st.heap) + 1,
                    method, activation, radius, conv, copy, clear)

(* ---------------------- get_graph_with_energy_data --------------------- *)
\* dict keys, in order of first insertion
RECURSIVE DictKeys(_)
DictKeys(names) ==
  IF names = << >> THEN << >>
  ELSE IF names[Len(names)] \in Range(SubSeq(names, 1, Len(names) - 1))
  THEN DictKeys(SubSeq(names, 1, Len(names) - 1))
  ELSE Append(DictKeys(SubSeq(names, 1, Len(names) - 1)), names[Len(names)])

ResolveMethods_first_only(methods) ==
  IF methods # << >> /\ _get_energy_method(methods[1]).err # ""
  THEN [err |-> "ValueError", keys |-> << >>]
  ELSE [err |-> "", keys |-> DictKeys(methods)]

\* for m in methods: energy_methods[m] = _get_energy_method(m)
ResolveMethods(methods) ==
  IF \E i \in DOMAIN methods : _get_energy_method(methods[i]).err # ""
  THEN [err |-> "ValueError", keys |-> << >>]
  ELSE [err |-> "", keys |-> DictKeys(methods)]

EnergyDecorators(keys, radius) ==
  [i \in DOMAIN keys |->
     [name |-> _get_energy_method_name(keys[i]),
      function |-> Augmentor("energy", keys[i], radius, "", FALSE, None)]]

GradientDecorators(keys, radius) ==
  [i \in DOMAIN keys |->
     [name |-> _get_gradient_method_name(keys[i]),
      function |-> Augmentor("gradient", keys[i], radius, "", FALSE, None)]]

WithError(d, err) == [st |-> d.st, ref |-> d.ref, err |-> err]

EnergyData(st, ref, energy_methods, radius, copy, clear) ==
  IF energy_methods.err # ""
  THEN [st |-> st, ref |-> ref, err |-> energy_methods.err]
  ELSE WithError(decorate_graph(st, ref,
                                EnergyDecorators(energy_methods.keys, radius),
                                GradientDecorators(energy_methods.keys, radius),
                                <<"get_gradient", "get_path_energy">>,
                                copy, clear),
                 "")

\* [st, ref, err]
get_graph_with_energy_data(st, ref, methods, radius, copy, clear) ==
  EnergyData(st, ref, ResolveMethods(methods), radius, copy, clear)

(* ------------------------- bound query operations --------------------- *)
\* graph.get_gradient(node1, node2, method): [err, value]
_get_gradient(graph, node1, node2, method) ==
  IF ~Has(graph.inst, "supported_methods")
  THEN [err |-> "AttributeError", value |-> 0]
  ELSE IF method \notin graph.inst["supported_methods"]
  THEN [err |-> "ValueError", value |-> 0]
  ELSE IF \/ ~Has(graph.node[node1], _get_energy_method_name(method))
          \/ ~Has(graph.node[node2], _get_energy_method_name(method))
  THEN [err |-> "KeyError", value |-> 0]
  ELSE [err |-> "",
        value |-> _compute_gradient(graph.node[node1][_get_energy_method_name(method)],
                                    graph.node[node2][_get_energy_method_name(method)])]

\* the energies along `path`, None where a node has no such attribute
PathEnergies(graph, path, method) ==
  [i \in DOMAIN path |->
     IF Has(graph.node[path[i]], _get_energy_method_name(method))
     THEN Dict(graph.node[path[i]][_get_energy_method_name(method)])
     ELSE None]

RECURSIVE AddEnergies(_, _)
AddEnergies(energy_sum, energies) ==
  IF energies = << >> THEN [err |-> "", value |-> energy_sum]
  ELSE IF Head(energies).isNone THEN [err |-> "KeyError", value |-> 0]
  ELSE AddEnergies(energy_sum + Head(energies).map, Tail(energies))

_get_path_energy_distinct(graph, path, method) ==
  [err |-> "",
   value |-> SumOver([n \in Range(path) |-> graph.node[n][_get_energy_method_name(method)]],
                     Range(path))]

\* graph.get_path_energy(path, method): [err, value]
_get_path_energy(graph, path, method) ==
  AddEnergies(0, PathEnergies(graph, path, method))

(* -------------- get_graph_with_energy_gradient_centrality ------------- *)
\* nodes_decorators[name] = lambda graph: get_energy_gradient_centrality(graph,
\* method=method, ...): `method` is the loop variable, read when the lambda runs
CentralityDecorators(methods, activation, radius, conv) ==
  [i \in DOMAIN DictKeys(methods) |->
     [name |-> _get_centrality_name(DictKeys(methods)[i]),
      function |-> Augmentor("centrality", methods[Len(methods)], radius, activation,
                             conv, None)]]

\* [st, ref, err]
get_graph_with_energy_gradient_centrality(st, ref, methods, activation, radius, conv, copy, clear) ==
  WithError(decorate_graph(st, ref,
                           CentralityDecorators(methods, activation, radius, conv),
                           << >>, << >>, copy, clear),
            "")

(* ------------------------------- inputs ------------------------------- *)
\* method names a caller passes: registered ones and one that is not
MethodNames == {"randic", "directed_laplacian", "unknown"}

RegisteredNames == MethodNames \cap _ENERGY_METHODS

\* simple graphs on nodes 1..k; an undirected graph reports each edge once,
\* from the node that comes first in its node order
Perms(S) == {p \in [1..Cardinality(S) -> S] : \A i, j \in DOMAIN p : i # j => p[i] # p[j]}

Pos(p, n) == CHOOSE i \in DOMAIN p : p[i] = n

Pairs(ns) == {e \in ns \X ns : e[1] # e[2]}

Graphs ==
  UNION {
    {NewGraph(1..k, es, TRUE) : es \in SUBSET Pairs(1..k)}
    \cup
    {NewGraph(1..k, es, FALSE) :
       es \in {x \in SUBSET Pairs(1..k) :
                 \E p \in Perms(1..k) : \A e \in x : Pos(p, e[1]) < Pos(p, e[2])}}
    : k \in 0..MaxNode}

\* caller-supplied augmentors: a function that returns `result`
Stub(name, result) ==
  [name |-> name, function |-> Augmentor("stub", "", 0, "", FALSE, result)]

StubResults(keys, values) == {Dict([k \in keys |-> v]) : v \in values}

NodeStubs(graph) == {<< >>} \cup {<<Stub("x", r)>> : r \in {Dict(EmptyDict)} \cup StubResults(graph.nodes, {0, 1})}

EdgeStubs(graph) == {<< >>} \cup {<<Stub("w", r)>> : r \in StubResults(graph.edges, {1})}

NoGraph == NewGraph({}, {}, FALSE)

NoCall ==
  [op |-> "none", methods |-> << >>, radius |-> 0, copy |-> FALSE, clear |-> FALSE,
   complete |-> FALSE, activation |-> "", conv |-> FALSE,
   nodes_decorators |-> << >>, edges_decorators |-> << >>, err |-> "",
   fresh |-> FALSE, again |-> FALSE, prev_fresh |-> FALSE, pre |-> NoGraph,
   efn |-> << >>, invoked |-> << >>, empty |-> FALSE, writes |-> << >>, ref |-> 0,
   noop |-> << >>, ranked |-> << >>]

NoQuery ==
  [op |-> "none", node1 |-> 0, node2 |-> 0, path |-> << >>, method |-> "",
   err |-> "", value |-> 0]

NoResult == [kind |-> "none", graph |-> NoGraph, result |-> None]

\* as constructed: no attribute, no instance attribute
IsFresh(graph) == graph = NewGraph(graph.nodes, graph.edges, graph.directed)

(* -------------------- girvan_newman_energy_gradient ------------------- *)
\* Python's max(a, b) of two positional arguments compares them with `>`:
\* numbers compare, objects of unrelated types raise TypeError
PyValue(type, value) == [type |-> type, value |-> value]

PyMax2(a, b) ==
  IF a.type = "number" /\ b.type = "number"
  THEN [err |-> "", value |-> IF b.value > a.value THEN b ELSE a]
  ELSE [err |-> "TypeError", value |-> a]

\* max(gradients.items(), operator.itemgetter(1))[0]: the two arguments are the
\* items view and the itemgetter object
SelectMax(gradients) ==
  IF gradients.err # ""
  THEN [err |-> gradients.err, edge |-> << >>]
  ELSE [err |-> PyMax2(PyValue("dict_items", gradients.map),
                       PyValue("itemgetter", 1)).err,
        edge |-> << >>]

\* most_central_edge(g): [err, edge]
most_central_edge(graph, method) ==
  SelectMax(get_energy_gradients(graph, method, FALSE, 1))

\* G.copy().to_undirected(): one edge per connected pair, reported from the
\* node that comes first (a directed graph is built with its nodes ascending)
ToUndirected(graph) ==
  IF ~graph.directed THEN GraphCopy(graph)
  ELSE NewGraph(graph.nodes,
                {e \in Pairs(graph.nodes) :
                   e[1] < e[2] /\ (e \in graph.edges \/ <<e[2], e[1]>> \in graph.edges)},
                FALSE)

RemoveEdge(graph, edge) ==
  [graph EXCEPT !.edges = @ \ {edge, <<edge[2], edge[1]>>},
                !.adj = [e \in (graph.edges \ {edge, <<edge[2], edge[1]>>}) |-> @[e]]]

\* nx.connected_components(G): the node sets of the components
RECURSIVE Reach(_, _)
Reach(graph, S) ==
  IF {n \in graph.nodes \ S :
        \E m \in S : <<m, n>> \in graph.edges \/ <<n, m>> \in graph.edges} = {}
  THEN S
  ELSE Reach(graph, S \cup {n \in graph.nodes \ S :
                              \E m \in S : <<m, n>> \in graph.edges
                                            \/ <<n, m>> \in graph.edges})

Components(graph) == {Reach(graph, {n}) : n \in graph.nodes}

\* _without_most_central_edges(G, most_valuable_edge): remove selected edges
\* until the number of components grows; [err, graph, components, selected]
RECURSIVE WithoutMostCentralEdges(_, _, _, _)
RemoveSelected(G, method, original, selected, r) ==
  IF r.err # ""
  THEN [err |-> r.err, graph |-> G, components |-> {}, selected |-> selected]
  ELSE IF Cardinality(Components(RemoveEdge(G, r.edge))) > original
  THEN [err |-> "", graph |-> RemoveEdge(G, r.edge),
        components |-> Components(RemoveEdge(G, r.edge)),
        selected |-> Append(selected, [edge |-> r.edge, graph |-> G])]
  ELSE WithoutMostCentralEdges(RemoveEdge(G, r.edge), method, original,
                               Append(selected, [edge |-> r.edge, graph |-> G]))

WithoutMostCentralEdges(G, method, original, selected) ==
  RemoveSelected(G, method, original, selected, most_central_edge(G, method))

\* the generator girvan_newman returns
\* state    : "created" (body not started), "running" (suspended at the yield
\*            of the loop), "last" (suspended at the yield for an edgeless
\*            graph), "exhausted" (returned), "raised" (ended by an exception)
\* graph    : the generator's working copy
\* yielded  : the partitions produced, in order
\* selected : the edges the selector returned, each with the graph it saw
NoGen ==
  [state |-> "none", method |-> "", graph |-> NoGraph, yielded |-> << >>,
   selected |-> << >>, err |-> ""]

\* one next() in the loop `while g.number_of_edges() > 0: yield ...`
LoopResult(generator, r) ==
  IF r.err # ""
  THEN [generator EXCEPT !.state = "raised", !.err = r.err, !.graph = r.graph,
                         !.selected = r.selected]
  ELSE [generator EXCEPT !.state = "running", !.graph = r.graph,
                         !.selected = r.selected,
                         !.yielded = Append(@, r.components)]

ResumeLoop(generator) ==
  IF generator.graph.edges = {}
  THEN [generator EXCEPT !.state = "exhausted"]
  ELSE LoopResult(generator,
                  WithoutMostCentralEdges(generator.graph, generator.method,
                                          Cardinality(Components(generator.graph)),
                                          generator.selected))

\* next(generator)
Resume(generator, graph) ==
  CASE generator.state = "created" ->
         IF graph.edges = {}
         THEN [generator EXCEPT !.state = "last", !.graph = graph,
                                !.yielded = <<Components(graph)>>]
         ELSE ResumeLoop([generator EXCEPT !.graph = ToUndirected(graph)])
    [] generator.state = "running" -> ResumeLoop(generator)
    [] OTHER -> [generator EXCEPT !.state = "exhausted"]

\* the energy functions are stubs: a value per node that grows with the node
Init ==
  /\ g \in Graphs
  /\ seed = [n \in g.nodes |-> n]
  /\ ret = NoResult
  /\ last = NoCall
  /\ q = NoQuery
  /\ gen = NoGen

\* the energy functions are stubs built from any values 0..MaxEnergy
InitGradients ==
  /\ g \in Graphs
  /\ seed \in [g.nodes -> 0..MaxEnergy]
  /\ ret = NoResult
  /\ last = NoCall
  /\ q = NoQuery
  /\ gen = NoGen

(* ------------------------------- actions ------------------------------ *)
\* the same entry point with the same arguments
SameCall(a, b) ==
  /\ a.op = b.op /\ a.methods = b.methods /\ a.radius = b.radius
  /\ a.copy = b.copy /\ a.clear = b.clear /\ a.complete = b.complete
  /\ a.activation = b.activation /\ a.conv = b.conv
  /\ a.nodes_decorators = b.nodes_decorators
  /\ a.edges_decorators = b.edges_decorators

\* the record of a finished call: its arguments, the caller's graph before it
\* (pre, fresh), whether it repeats the call before it (again) and that one was
\* made on the graph as constructed (prev_fresh), and what it did
Called(call, st, ref, err) ==
  [call EXCEPT !.err = err, !.fresh = IsFresh(g), !.pre = g,
               !.again = SameCall(call, last), !.prev_fresh = (SameCall(call, last) /\ last.fresh),
               !.efn = st.efn, !.invoked = st.invoked, !.empty = st.empty,
               !.writes = st.writes, !.ref = ref, !.noop = st.noop,
               !.ranked = st.ranked]

\* a call that returns a graph (or raises): r = [st, ref, err]
AfterGraphCall(r, call) ==
  /\ g' = r.st.heap[1]
  /\ ret' = IF r.err # "" THEN [NoResult EXCEPT !.kind = r.err]
            ELSE [NoResult EXCEPT !.kind = "graph", !.graph = r.st.heap[r.ref]]
  /\ last' = Called(call, r.st, r.ref, r.err)
  /\ q' = NoQuery
  /\ UNCHANGED <<seed, gen>>

\* a call that returns a dict or None: r = [st, result]
AfterValueCall(r, call) ==
  /\ g' = r.st.heap[1]
  /\ ret' = [NoResult EXCEPT !.kind = IF r.result.isNone THEN "None" ELSE "dict",
                             !.result = r.result]
  /\ last' = Called(call, r.st, 0, "")
  /\ q' = NoQuery
  /\ UNCHANGED <<seed, gen>>

GetGraphWithEnergyData(methods, radius, copy, clear) ==
  AfterGraphCall(
    get_graph_with_energy_data(StartCall(g), 1, methods, radius, copy, clear),
    [NoCall EXCEPT !.op = "get_graph_with_energy_data", !.methods = methods,
                   !.radius = radius, !.copy = copy, !.clear = clear])

DecorateGraph(nodes_decorators, edges_decorators, copy, clear) ==
  AfterGraphCall(
    WithError(decorate_graph(StartCall(g), 1, nodes_decorators, edges_decorators,
                             << >>, copy, clear), ""),
    [NoCall EXCEPT !.op = "decorate_graph", !.nodes_decorators = nodes_decorators,
                   !.edges_decorators = edges_decorators, !.copy = copy,
                   !.clear = clear])

GetEnergyGradientCentrality(method, activation, radius, conv, copy, clear) ==
  AfterValueCall(
    get_energy_gradient_centrality(StartCall(g), 1, method, activation, radius, conv,
                                   copy, clear),
    [NoCall EXCEPT !.op = "get_energy_gradient_centrality", !.methods = <<method>>,
                   !.activation = activation, !.radius = radius, !.conv = conv,
                   !.copy = copy, !.clear = clear])

GetGraphWithEnergyGradientCentrality(methods, activation, radius, conv, copy, clear) ==
  AfterGraphCall(
    get_graph_with_energy_gradient_centrality(StartCall(g), 1, methods, activation,
                                              radius, conv, copy, clear),
    [NoCall EXCEPT !.op = "get_graph_with_energy_gradient_centrality",
                   !.methods = methods, !.activation = activation, !.radius = radius,
                   !.conv = conv, !.copy = copy, !.clear = clear])

\* get_energy_gradients called directly; it does not touch the graph
AfterGradients(r, call) ==
  /\ ret' = IF r.err # "" THEN [NoResult EXCEPT !.kind = r.err]
            ELSE [NoResult EXCEPT !.kind = "dict", !.result = Dict(r.map)]
  /\ last' = [call EXCEPT !.err = r.err, !.efn = r.efn, !.fresh = IsFresh(g), !.pre = g,
                          !.again = SameCall(call, last), !.prev_fresh = (SameCall(call, last) /\ last.fresh)]
  /\ q' = NoQuery
  /\ UNCHANGED <<g, seed, gen>>

GetEnergyGradients(method, complete, radius) ==
  AfterGradients(
    get_energy_gradients(g, method, complete, radius),
    [NoCall EXCEPT !.op = "get_energy_gradients", !.methods = <<method>>,
                   !.complete = complete, !.radius = radius])

\* graph.get_gradient(node1, node2, method) on the graph the last call returned
AfterQuery(r, node1, node2, method) ==
  /\ q' = [op |-> "get_gradient", node1 |-> node1, node2 |-> node2, path |-> << >>,
           method |-> method, err |-> r.err, value |-> r.value]
  /\ UNCHANGED <<g, seed, ret, last, gen>>

GetGradient(node1, node2, method) ==
  /\ ret.kind = "graph"
  /\ Has(ret.graph.inst, "get_gradient")
  /\ AfterQuery(_get_gradient(ret.graph, node1, node2, method), node1, node2, method)

\* graph.get_path_energy(path, method) on the graph the last call returned
AfterPathQuery(r, path, method) ==
  /\ q' = [op |-> "get_path_energy", node1 |-> 0, node2 |-> 0, path |-> path,
           method |-> method, err |-> r.err, value |-> r.value]
  /\ UNCHANGED <<g, seed, ret, last, gen>>

GetPathEnergy(path, method) ==
  /\ ret.kind = "graph"
  /\ Has(ret.graph.inst, "get_path_energy")
  /\ AfterPathQuery(_get_path_energy(ret.graph, path, method), path, method)

\* clear_all_nodes_attrs(g) / clear_all_edges_attrs(g) called on the caller's
\* graph; they return nothing
AfterClear(graph, op) ==
  /\ g' = graph
  /\ ret' = NoResult
  /\ last' = [NoCall EXCEPT !.op = op, !.fresh = IsFresh(g), !.pre = g, !.ref = 1]
  /\ q' = NoQuery
  /\ UNCHANGED <<seed, gen>>

ClearAllNodesAttrs == AfterClear(clear_all_nodes_attrs(g), "clear_all_nodes_attrs")

ClearAllEdgesAttrs == AfterClear(clear_all_edges_attrs(g), "clear_all_edges_attrs")

\* girvan_newman_energy_gradient(graph, method): a generator, nothing has run
GirvanNewmanEnergyGradient(method) ==
  /\ gen' = [NoGen EXCEPT !.state = "created", !.method = method]
  /\ UNCHANGED <<g, seed, ret, last, q>>

\* next() on the generator, until it is exhausted or has raised
NextPartition ==
  /\ gen.state \in {"created", "running", "last"}
  /\ gen' = Resume(gen, g)
  /\ UNCHANGED <<g, seed, ret, last, q>>

(* --------------------------- specifications --------------------------- *)
EnergyDataStep(lists, radii, copies, clears) ==
  \E methods \in lists, radius \in radii,
     copy \in copies, clear \in clears :
    GetGraphWithEnergyData(methods, radius, copy, clear)

QueryStep ==
  \E node1 \in ret.graph.nodes, node2 \in ret.graph.nodes, method \in MethodNames :
    GetGradient(node1, node2, method)

DecorateStep ==
  \E nodes_decorators \in NodeStubs(g), edges_decorators \in EdgeStubs(g),
     copy \in BOOLEAN, clear \in BOOLEAN :
    DecorateGraph(nodes_decorators, edges_decorators, copy, clear)

CentralityStep(activations, radii) ==
  \E method \in RegisteredNames, activation \in activations, radius \in radii,
     conv \in BOOLEAN, copy \in BOOLEAN, clear \in BOOLEAN :
    GetEnergyGradientCentrality(method, activation, radius, conv, copy, clear)

GraphCentralityStep(activations, radii, copies, clears) ==
  \E methods \in SeqsUpTo(RegisteredNames, MaxMethods) \ {<< >>},
     activation \in activations, radius \in radii, conv \in BOOLEAN,
     copy \in copies, clear \in clears :
    GetGraphWithEnergyGradientCentrality(methods, activation, radius, conv, copy, clear)

GradientsStep ==
  \E method \in MethodNames, complete \in BOOLEAN, radius \in Radii :
    GetEnergyGradients(method, complete, radius)

\* `methods` arguments: lists without repetition
ListsOf(names) ==
  {l \in SeqsUpTo(names, MaxMethods) : \A i, j \in DOMAIN l : i # j => l[i] # l[j]}

MethodLists == ListsOf(MethodNames)

\* the energy/gradient facade at its default radius, any lists and flags
NextData == EnergyDataStep(MethodLists, {1}, BOOLEAN, BOOLEAN)

SpecData == Init /\ [][NextData]_vars

\* the facade called again and again in place, for registered methods at any radius
NextRepeat == EnergyDataStep(ListsOf(RegisteredNames), Radii, {FALSE}, {FALSE})

SpecRepeat == Init /\ [][NextRepeat]_vars

\* the facade with its default radius and clear, and the bound query on its result
NextQuery == EnergyDataStep(MethodLists, {1}, BOOLEAN, {FALSE}) \/ QueryStep

SpecQuery == Init /\ [][NextQuery]_vars

\* decorate_graph with caller-supplied augmentors, after or before the facade
\* called for one method
NextDecorate == DecorateStep \/ EnergyDataStep({<<"randic">>}, {1}, BOOLEAN, {FALSE})

SpecDecorate == Init /\ [][NextDecorate]_vars

\* the centrality engine, at the default radius
NextCentrality ==
  \/ CentralityStep(ACTIVATION_NAMES, {1})
  \/ GraphCentralityStep({"relu"}, {1}, BOOLEAN, {FALSE})

SpecCentrality == Init /\ [][NextCentrality]_vars

\* get_energy_gradient_centrality alone, any activation, flags and outcome of
\* rank propagation
NextRank == CentralityStep(ACTIVATION_NAMES, {1})

SpecRank == Init /\ [][NextRank]_vars

\* the edge weights of get_energy_gradient_centrality as a function of the
\* energies: one method, converging rank propagation, energies from any seeds
WeightsStep ==
  \E activation \in ACTIVATION_NAMES, copy \in BOOLEAN, clear \in BOOLEAN :
    GetEnergyGradientCentrality("randic", activation, 1, TRUE, copy, clear)

NextWeights == WeightsStep

SpecWeights == InitGradients /\ [][NextWeights]_vars

\* decorate_graph in place with caller-supplied augmentors (among them one
\* that returns {}), the facade for one method and the centrality decoration
\* for one method, converging or not
StubStep(copies, clears) ==
  \E nodes_decorators \in NodeStubs(g), edges_decorators \in EdgeStubs(g),
     copy \in copies, clear \in clears :
    DecorateGraph(nodes_decorators, edges_decorators, copy, clear)

OneCentralityStep ==
  \E conv \in BOOLEAN :
    GetGraphWithEnergyGradientCentrality(<<"randic">>, "relu", 1, conv, FALSE, FALSE)

NextNoop ==
  \/ StubStep({FALSE}, BOOLEAN)
  \/ EnergyDataStep({<<"randic">>}, {1}, {FALSE}, {FALSE})
  \/ OneCentralityStep

SpecNoop == Init /\ [][NextNoop]_vars

\* every operation that touches the Augmentation Records, on one graph
ClearStep == ClearAllNodesAttrs \/ ClearAllEdgesAttrs

NodeStubStep ==
  \E result \in StubResults(g.nodes, {0, 1}) :
    DecorateGraph(<<Stub("x", result)>>, << >>, FALSE, FALSE)

TwoCentralityStep ==
  \E methods \in {<<"randic">>, <<"randic", "directed_laplacian">>}, conv \in BOOLEAN :
    GetGraphWithEnergyGradientCentrality(methods, "relu", 1, conv, FALSE, FALSE)

NextRecord ==
  \/ NodeStubStep
  \/ EnergyDataStep({<<"randic">>}, {1}, {FALSE}, {FALSE})
  \/ TwoCentralityStep
  \/ ClearStep

SpecRecord == Init /\ [][NextRecord]_vars

\* the facade for two methods, and the bound path query on its result
PathStep ==
  \E path \in SeqsUpTo(ret.graph.nodes, MaxPath), method \in RegisteredNames :
    GetPathEnergy(path, method)

NextPath ==
  \/ EnergyDataStep({<<"directed_laplacian", "randic">>}, {1}, BOOLEAN, {FALSE})
  \/ PathStep

SpecPath == Init /\ [][NextPath]_vars

\* the splitting generator, created for any method name and iterated
SplitStep == \E method \in MethodNames : GirvanNewmanEnergyGradient(method)

NextSplit == SplitStep \/ NextPartition

SpecSplit == InitGradients /\ [][NextSplit]_vars

\* get_energy_gradients as a function of its arguments
NextGradients == GradientsStep

SpecGradients == InitGradients /\ [][NextGradients]_vars

(* ------------------------------- claims ------------------------------- *)
IsEnergyDataCall(call) == call.op = "get_graph_with_energy_data"

IsDecorateCall(call) == call.op = "decorate_graph"

\* a step that is the second of two identical in-place, non-clearing
\* get_graph_with_energy_data calls for one method, the first one made on the
\* graph as constructed
C1_SecondCall ==
  /\ last' # last
  /\ IsEnergyDataCall(last') /\ last'.again /\ last.fresh
  /\ Len(last'.methods) = 1 /\ ~last'.copy /\ ~last'.clear /\ last'.err = ""

\* C1 as stated (on a graph with an edge): over the two calls the energy
\* function is invoked exactly once, by the first call, and not at all by the
\* second
C1_OnceInTotal ==
  [][C1_SecondCall /\ g.edges # {} => Len(last.efn) = 1 /\ Len(last'.efn) = 0]_vars

\* C1 amended: on a graph with at least one edge the first call invokes the
\* method's energy function exactly twice (the energy augmentor, then the
\* gradient augmentor), the second call does not invoke it at all
C1_TwiceThenNever ==
  [][C1_SecondCall /\ g.edges # {} =>
       /\ last.efn = <<last.methods[1], last.methods[1]>>
       /\ last.invoked = <<<<"node", _get_energy_method_name(last.methods[1])>>,
                           <<"edge", _get_gradient_method_name(last.methods[1])>>>>
       /\ last'.efn = << >>
       /\ last'.invoked = << >>]_vars

C1_Witness ==
  /\ IsEnergyDataCall(last) /\ last.again /\ last.prev_fresh
  /\ Len(last.methods) = 1 /\ ~last.copy /\ ~last.clear /\ last.err = ""
  /\ g.edges # {}
  /\ last.efn = << >>
  /\ has_nodes_decorated(g, _get_energy_method_name(last.methods[1]))

\* a get_gradient query on the graph a successful get_graph_with_energy_data
\* call returned
QueriedAfterEnergyData ==
  q.op = "get_gradient" /\ IsEnergyDataCall(last) /\ last.err = ""

\* C2 as stated: for a method that was applied, get_gradient(u, v, m) returns
\* energy_m(v) - energy_m(u) of the stored attributes and does not fail
C2_GradientOfAppliedMethod ==
  QueriedAfterEnergyData /\ q.method \in Range(last.methods) =>
    /\ q.err = ""
    /\ q.value = ret.graph.node[q.node2][_get_energy_method_name(q.method)]
                   - ret.graph.node[q.node1][_get_energy_method_name(q.method)]

\* C3 as stated: for a method that was never applied, get_gradient fails with
\* the ValueError of the supported-methods check
C3_UnsupportedMethodError ==
  QueriedAfterEnergyData /\ q.method \notin Range(last.methods) =>
    q.err = "ValueError"

\* the edges get_energy_gradients is to cover
ExpectedEdges ==
  IF last.complete /\ ~g.directed
  THEN g.edges \cup {<<e[2], e[1]>> : e \in g.edges}
  ELSE g.edges

ExpectedEnergies ==
  EnergyFunction(last.methods[1], IF last.complete THEN ToDirected(g) ELSE g, last.radius)

\* C4: for a registered method get_energy_gradients returns a dict whose keys
\* are exactly the edges of the graph (of its directed conversion when
\* complete), with energy[v] - energy[u] for each edge (u, v), the energies
\* computed once
C4_GradientsOverEdges ==
  last.op = "get_energy_gradients" /\ last.methods[1] \in _ENERGY_METHODS =>
    /\ last.err = "" /\ ret.kind = "dict"
    /\ DOMAIN ret.result.map = ExpectedEdges
    /\ \A e \in ExpectedEdges :
         ret.result.map[e] = ExpectedEnergies[e[2]] - ExpectedEnergies[e[1]]
    /\ last.efn = <<last.methods[1]>>

C4_Witness ==
  /\ last.op = "get_energy_gradients" /\ last.err = ""
  /\ ~last.complete
  /\ \E e \in g.edges : ret.result.map[e] < 0
  /\ \E e \in g.edges : ret.result.map[e] > 0

\* C5: with complete=true on an undirected graph both orders of every edge
\* are keys and their gradients are opposite
C5_Antisymmetry ==
  last.op = "get_energy_gradients" /\ last.err = "" /\ last.complete /\ ~g.directed =>
    \A e \in g.edges :
      /\ {<<e[1], e[2]>>, <<e[2], e[1]>>} \subseteq DOMAIN ret.result.map
      /\ ret.result.map[<<e[1], e[2]>>] = 0 - ret.result.map[<<e[2], e[1]>>]

C5_Witness ==
  /\ last.op = "get_energy_gradients" /\ last.err = "" /\ last.complete /\ ~g.directed
  /\ \E e \in g.edges : ret.result.map[<<e[1], e[2]>>] > 0
                        /\ ret.result.map[<<e[2], e[1]>>] < 0

IsGraphCentralityCall(call) == call.op = "get_graph_with_energy_gradient_centrality"

\* C6 as stated: repeating an in-place, non-clearing decorate_graph call whose
\* augmentors returned non-empty results changes nothing on the graph
\* (attributes, Augmentation Records, bound operations) and invokes no
\* augmentor; decorate_graph is called directly or through the entry points that
\* build its augmentors
C6_Idempotent ==
  [][(/\ last' # last
      /\ (IsDecorateCall(last') \/ IsEnergyDataCall(last') \/ IsGraphCentralityCall(last'))
      /\ last'.again /\ ~last'.copy /\ ~last'.clear
      /\ last.err = "" /\ ~last.empty)
     => (g' = g /\ last'.invoked = << >>)]_vars

DecoratorNames(decorators) == {decorators[i].name : i \in DOMAIN decorators}

PassedInOrder(call) ==
  [i \in DOMAIN call.nodes_decorators |-> <<"node", call.nodes_decorators[i].name>>]
    \o [i \in DOMAIN call.edges_decorators |-> <<"edge", call.edges_decorators[i].name>>]

WrittenInCall(scope, key, name, value) ==
  \E i \in DOMAIN last.writes :
    last.writes[i] = [ref |-> last.ref, scope |-> scope, key |-> key, name |-> name,
                      value |-> value]

\* C7: after decorate_graph with clear=true every attribute on the graph was
\* written in this call, the Augmentation Records hold only names applied in
\* this call, and every augmentor passed was invoked
C7_ClearLeavesOnlyCurrent ==
  IsDecorateCall(last) /\ last.clear =>
    /\ \A n \in ret.graph.nodes : \A k \in DOMAIN ret.graph.node[n] :
         WrittenInCall("node", n, k, ret.graph.node[n][k])
    /\ \A e \in ret.graph.edges : \A k \in DOMAIN ret.graph.adj[e] :
         WrittenInCall("edge", e, k, ret.graph.adj[e][k])
    /\ Range(GetAttr(ret.graph, _NODES_DECORATORS_ATTR_NAME, << >>))
         \subseteq DecoratorNames(last.nodes_decorators)
    /\ Range(GetAttr(ret.graph, _EDGES_DECORATORS_ATTR_NAME, << >>))
         \subseteq DecoratorNames(last.edges_decorators)
    /\ last.invoked = PassedInOrder(last)

\* an in-place clearing call on a graph that carried the energies of an
\* earlier call and had "x" recorded, passing "x" again
C7_Witness ==
  /\ IsDecorateCall(last) /\ last.clear /\ ~last.copy
  /\ has_nodes_decorated(last.pre, "x")
  /\ \E n \in last.pre.nodes : Has(last.pre.node[n], "randic_energy")
  /\ \E e \in last.pre.edges : Has(last.pre.adj[e], "randic_gradient")
  /\ last.invoked = <<<<"node", "x">>>>
  /\ \A n \in g.nodes : DOMAIN g.node[n] = {"x"}
  /\ \A e \in g.edges : DOMAIN g.adj[e] = {}

\* C8: with copy=true the caller's graph is as it was before the call and all
\* writes went to the returned duplicate
C8_CopyLeavesOriginal ==
  (IsDecorateCall(last) \/ IsEnergyDataCall(last)) /\ last.copy =>
    /\ g = last.pre
    /\ ret.kind = "graph" /\ last.ref # 1
    /\ \A i \in DOMAIN last.writes : last.writes[i].ref = last.ref

C8_Witness ==
  /\ IsDecorateCall(last) /\ last.copy /\ last.clear
  /\ ~IsFresh(last.pre) /\ g = last.pre
  /\ last.writes # << >>
  /\ ret.graph # g

\* C9 as stated: get_energy_gradient_centrality leaves the caller's graph as it
\* was, whatever copy and clear are
C9_CentralityLeavesGraph ==
  last.op = "get_energy_gradient_centrality" => g = last.pre

\* rank propagation on the empty graph returns {} without iterating
Converged(call) == call.conv \/ call.pre.nodes = {}

IsCentralityCall(call) == call.op = "get_energy_gradient_centrality"

\* C11: get_energy_gradient_centrality returns a mapping over exactly the
\* nodes of the graph when rank propagation converges and None, without
\* raising, when it does not; never a mapping for a non-converged run
C11_MappingOrNone ==
  IsCentralityCall(last) =>
    /\ last.err = ""
    /\ Converged(last) => ret.kind = "dict" /\ DOMAIN ret.result.map = last.pre.nodes
    /\ ~Converged(last) => ret.kind = "None" /\ ret.result = None

\* a non-converged run on a graph with edges
C11_Witness ==
  /\ IsCentralityCall(last) /\ ~last.conv
  /\ last.pre.edges # {}
  /\ Len(last.ranked) = 1 /\ last.ranked[1].edges # {}
  /\ ret.kind = "None"

\* C12: for relu and elu and gradients of any sign, every edge of the directed
\* graph get_energy_gradient_centrality hands to rank propagation carries a
\* 'gradient' weight and it is non-negative
C12_NonNegativeWeights ==
  IsCentralityCall(last) =>
    /\ Len(last.ranked) = 1
    /\ last.ranked[1].directed
    /\ \A e \in last.ranked[1].edges :
         /\ Has(last.ranked[1].adj[e], "gradient")
         /\ last.ranked[1].adj[e]["gradient"] >= 0

\* elu on a graph with an edge of negative gradient -1 (weight log10(2)) and an
\* edge of positive gradient
C12_Witness ==
  /\ IsCentralityCall(last) /\ last.activation = "elu"
  /\ Len(last.ranked) = 1
  /\ \E e \in last.ranked[1].edges :
       /\ GradientsOf(last.ranked[1], EnergyFunction("randic", last.ranked[1], 1))[e] = -1
       /\ last.ranked[1].adj[e]["gradient"] = Log10Milli(2)
  /\ \E e \in last.ranked[1].edges : last.ranked[1].adj[e]["gradient"] >= 1000

\* the generator has been advanced at least once for a registered method on a
\* graph with an edge
Iterated ==
  /\ gen.state \in {"running", "exhausted", "raised"}
  /\ gen.method \in _ENERGY_METHODS
  /\ g.edges # {}

MaxGradientEdge(graph, method, edge) ==
  \A e \in graph.edges :
    GradientsOn(graph, method, 1).map[e] <= GradientsOn(graph, method, 1).map[edge]

\* C13 as stated: at every split step the selector returns an edge of the
\* current graph whose non-complete gradient is maximal, so the first
\* partition of a graph whose maximum-gradient edge is its single bridge is
\* the two components left by removing that bridge
C13_SelectsMaxGradientEdge ==
  Iterated =>
    /\ gen.err = ""
    /\ gen.selected # << >>
    /\ \A i \in DOMAIN gen.selected :
         /\ gen.selected[i].edge \in gen.selected[i].graph.edges
         /\ MaxGradientEdge(gen.selected[i].graph, gen.method, gen.selected[i].edge)
    /\ gen.yielded # << >>
    /\ gen.yielded[1] = Components(RemoveEdge(ToUndirected(g), gen.selected[1].edge))

\* a partition refines another: each of its blocks lies within one block
Refines(fine, coarse) == \A b \in fine : \E c \in coarse : b \subseteq c

\* C14 as stated: iterating the generator of a graph with an edge ends without
\* an error; the partitions produced are partitions of the node set, each
\* finer than the one before, and when the iteration has ended no edge remains
C14_TerminatesNormally ==
  Iterated =>
    /\ gen.state # "raised" /\ gen.err = ""
    /\ \A i \in DOMAIN gen.yielded :
         /\ UNION gen.yielded[i] = g.nodes
         /\ i > 1 => Refines(gen.yielded[i], gen.yielded[i - 1])
    /\ gen.state = "exhausted" => gen.graph.edges = {}

\* C15: on a graph get_graph_with_energy_data returned for methods M,
\* get_path_energy(path, m) for m in M is the sum of the stored "<m>_energy"
\* over the nodes of the path, repetitions counted, 0 for the empty path
C15_PathEnergySum ==
  q.op = "get_path_energy" /\ IsEnergyDataCall(last) /\ last.err = ""
    /\ q.method \in Range(last.methods) =>
    /\ q.err = ""
    /\ q.value = SumOver([i \in DOMAIN q.path |->
                            ret.graph.node[q.path[i]][_get_energy_method_name(q.method)]],
                         DOMAIN q.path)
    /\ q.path = << >> => q.value = 0

\* a path that visits a node twice, on a graph that carries two methods'
\* energies
C15_Witness ==
  /\ q.op = "get_path_energy" /\ IsEnergyDataCall(last) /\ Len(last.methods) = 2
  /\ q.method = "directed_laplacian" /\ q.err = ""
  /\ Len(q.path) = 2 /\ q.path[1] = q.path[2]
  /\ q.value = 2 * ret.graph.node[q.path[1]]["directed_laplacian_energy"]
  /\ q.value > 0
  /\ ret.graph.node[q.path[1]]["randic_energy"] # ret.graph.node[q.path[1]]["directed_laplacian_energy"]

\* the augmentor names a call passes to decorate_graph, as <<scope, name>>
PassedNames(call) ==
  CASE IsDecorateCall(call) -> Range(PassedInOrder(call))
    [] IsEnergyDataCall(call) ->
         {<<"node", _get_energy_method_name(call.methods[i])>> : i \in DOMAIN call.methods}
         \cup {<<"edge", _get_gradient_method_name(call.methods[i])>> : i \in DOMAIN call.methods}
    [] IsGraphCentralityCall(call) ->
         {<<"node", _get_centrality_name(call.methods[i])>> : i \in DOMAIN call.methods}
    [] OTHER -> {}

RecordOf(graph, scope) ==
  Range(GetAttr(graph, IF scope = "node" THEN _NODES_DECORATORS_ATTR_NAME
                       ELSE _EDGES_DECORATORS_ATTR_NAME, << >>))

CentralityOf(graph, method, activation, radius) ==
  get_energy_gradient_centrality(StartCall(graph), 1, method, activation, radius,
                                 TRUE, TRUE, TRUE).result.map

\* C17 as stated: after get_graph_with_energy_gradient_centrality for two or
\* more distinct methods with converging rank propagation on an undecorated
\* graph, every node carries "<m>_gradient_centrality" for every method m, and
\* its value is the gradient centrality computed with m
C17_OwnMethodCentrality ==
  (/\ IsGraphCentralityCall(last) /\ last.conv /\ IsFresh(last.pre)
   /\ Len(last.methods) >= 2
   /\ \A i, j \in DOMAIN last.methods : i # j => last.methods[i] # last.methods[j])
  => \A n \in ret.graph.nodes : \A i \in DOMAIN last.methods :
       /\ Has(ret.graph.node[n], _get_centrality_name(last.methods[i]))
       /\ ret.graph.node[n][_get_centrality_name(last.methods[i])]
            = CentralityOf(last.pre, last.methods[i], last.activation, last.radius)[n]

NoDuplicates(list) == \A i, j \in DOMAIN list : i # j => list[i] # list[j]

\* the values stored under `name`, by node or by edge
Stored(graph, scope, name) ==
  IF scope = "node"
  THEN [n \in {x \in graph.nodes : Has(graph.node[x], name)} |-> graph.node[n][name]]
  ELSE [e \in {x \in graph.edges : Has(graph.adj[x], name)} |-> graph.adj[e][name]]

\* the writes of a call to the caller's graph under `name`
WritesTo(call, scope, name) ==
  {i \in DOMAIN call.writes :
     call.writes[i].ref = 1 /\ call.writes[i].scope = scope /\ call.writes[i].name = name}

\* what the augmentor `name` returned in this call is what is stored now
StoredAsReturned(call, graph, scope, name) ==
  /\ WritesTo(call, scope, name) # {}
  /\ DOMAIN Stored(graph, scope, name)
       = {call.writes[i].key : i \in WritesTo(call, scope, name)}
  /\ \A i \in WritesTo(call, scope, name) :
       (\A j \in WritesTo(call, scope, name) : call.writes[j].key = call.writes[i].key => j <= i)
         => Stored(graph, scope, name)[call.writes[i].key] = call.writes[i].value

\* C19: in every state reached by decorate_graph, get_graph_with_energy_data,
\* get_graph_with_energy_gradient_centrality and clear_all_*_attrs calls on one
\* graph, each Augmentation Record holds a name at most once; a name is in a
\* record only while the values its augmentor returned are stored under it;
\* clearing a scope's attributes empties that scope's record
C19_RecordMatchesAttributes ==
  [][last' # last =>
       /\ NoDuplicates(GetAttr(g', _NODES_DECORATORS_ATTR_NAME, << >>))
       /\ NoDuplicates(GetAttr(g', _EDGES_DECORATORS_ATTR_NAME, << >>))
       /\ \A scope \in {"node", "edge"} : \A name \in RecordOf(g', scope) :
            \/ /\ name \in RecordOf(g, scope)
               /\ Stored(g', scope, name) = Stored(g, scope, name)
               /\ DOMAIN Stored(g', scope, name) # {}
            \/ StoredAsReturned(last', g', scope, name)
       /\ last'.op = "clear_all_nodes_attrs" =>
            /\ RecordOf(g', "node") = {}
            /\ g'.node = NoAttrs(g.nodes)
            /\ g'.adj = g.adj /\ RecordOf(g', "edge") = RecordOf(g, "edge")
       /\ last'.op = "clear_all_edges_attrs" =>
            /\ RecordOf(g', "edge") = {}
            /\ g'.adj = NoAttrs(g.edges)
            /\ g'.node = g.node /\ RecordOf(g', "node") = RecordOf(g, "node")]_vars

\* the node attributes of a graph that carried a stub's values, energies and
\* gradients are cleared: the node record is gone, the edge record stays with
\* its values
C19_Witness ==
  /\ last.op = "clear_all_nodes_attrs"
  /\ {"x", "randic_energy"} \subseteq RecordOf(last.pre, "node")
  /\ RecordOf(g, "node") = {}
  /\ "randic_gradient" \in RecordOf(g, "edge")
  /\ \A e \in g.edges : Has(g.adj[e], "randic_gradient")
  /\ g.edges # {}

\* C10: an unregistered name among `methods` makes get_graph_with_energy_data
\* fail with ValueError before anything is invoked, written, cleared or bound
C10_UnknownMethodFailsFirst ==
  IsEnergyDataCall(last) /\ (\E i \in DOMAIN last.methods : last.methods[i] \notin _ENERGY_METHODS) =>
    /\ last.err = "ValueError" /\ ret.kind = "ValueError"
    /\ g = last.pre
    /\ last.efn = << >> /\ last.invoked = << >> /\ last.writes = << >>

\* a valid name before the unknown one, clear=true, on a decorated graph
C10_Witness ==
  /\ IsEnergyDataCall(last) /\ last.err = "ValueError"
  /\ Len(last.methods) = 2
  /\ last.methods[1] \in _ENERGY_METHODS /\ last.methods[2] \notin _ENERGY_METHODS
  /\ last.clear /\ ~last.copy
  /\ \E n \in g.nodes : DOMAIN g.node[n] # {}
  /\ Has(g.inst, "get_gradient")

====
